---- MODULE Spec2Model ----
(***************************************************************************)
(* exparser: exact rational arithmetic (Rational.py), the tokenizer /      *)
(* parser and the PEMDAS consolidation and evaluator (Expression.py).      *)
(*                                                                         *)
(* Three specifications share the module:                                  *)
(*   Spec     the command line path of app.py: Expression.parse of an      *)
(*            input string, then Expression.calculate;                     *)
(*   RatSpec  the Rational class used as a library: objects a and b and    *)
(*            the public operations on them;                               *)
(*   EgSpec   the loop of Rational.as_egyptian_fraction, one iteration     *)
(*            per step.                                                    *)
(*                                                                         *)
(* Python integers are unbounded and the float divisions of simplify are   *)
(* exact below 2^53; every value of the model stays far below both, so     *)
(* numbers are modelled as integers.                                       *)
(***************************************************************************)
EXTENDS Integers, Sequences, FiniteSets, TLC

VARIABLES
  s,             \* Spec: the expression text handed to Expression.parse
  pc,            \* Spec: "input" -> "parsed" -> "done"
  ex,            \* Spec: what Expression.parse returned (or raised)
  pemdasTokens,  \* Spec: root self.tokens right after self.pemdas()
  tokens,        \* Spec: root self.tokens when calculate has returned or raised
  result,        \* Spec: what calculate returned (or raised)
  heap,          \* RatSpec: the Rational objects, by name
  lastCall,      \* RatSpec: the last call: operation, operands, operands before
  ret,           \* RatSpec: what the last call returned (or raised)
  egSelf,        \* EgSpec: self of as_egyptian_fraction
  egX,           \* EgSpec: the local x (the remainder)
  egI,           \* EgSpec: the local i
  egResult,      \* EgSpec: the local result (list of Rationals)
  egPc           \* EgSpec: "idle" -> "loop" -> "done"

exprVars == <<s, pc, ex, pemdasTokens, tokens, result>>
ratVars == <<heap, lastCall, ret>>
egVars == <<egSelf, egX, egI, egResult, egPc>>
vars == <<s, pc, ex, pemdasTokens, tokens, result, heap, lastCall, ret,
          egSelf, egX, egI, egResult, egPc>>

(***************************************************************************)
(* Bounds of the model.                                                    *)
(***************************************************************************)
\* RatSpec: numerators and denominators handed to the constructor.
MaxInt == 3
\* EgSpec: numerators and denominators of self.
EgMaxDen == 5
\* EgSpec: iterations of the loop that are followed.
IterCap == 25
\* Spec: every text of at most this many characters is an input.
MaxLen == 4
\* Spec: a power beyond this magnitude is kept as an untracked float.
PowCap == 100000

(***************************************************************************)
(* Values.  A Rational is [kind |-> "rat", numer, denom]; a raised         *)
(* exception is [kind |-> "err", error]; None is [kind |-> "None"].        *)
(***************************************************************************)
None == [kind |-> "None"]
Raise(e) == [kind |-> "err", error |-> e]
IsErr(v) == v.kind = "err"
IsRat(v) == v.kind = "rat"
Rat(n, d) == [kind |-> "rat", numer |-> n, denom |-> d]

Abs(n) == IF n < 0 THEN -n ELSE n

\* math.gcd: the non-negative greatest common divisor; gcd(0, n) = |n|.
RECURSIVE GcdNat(_, _)
GcdNat(a, b) == IF b = 0 THEN a ELSE GcdNat(b, a % b)
gcd(a, b) == GcdNat(Abs(a), Abs(b))

\* int(n / x): true division, then truncation toward zero.
IntDiv(n, x) ==
  IF (n >= 0) = (x > 0) THEN Abs(n) \div Abs(x) ELSE -(Abs(n) \div Abs(x))

\* Rational.simplify: gcd is sign-agnostic, so the signs of both fields stay.
simplify(r) ==
  LET x == gcd(r.numer, r.denom)
  IN  Rat(IntDiv(r.numer, x), IntDiv(r.denom, x))

\* Rational.__init__
Rational(numer, denom, simp) ==
  IF denom = 0 THEN Raise("ZeroDivisionError")
  ELSE IF denom # 1 /\ simp THEN simplify(Rat(numer, denom))
  ELSE Rat(numer, denom)

\* Rational.copy
copy(rat, simp) == Rational(rat.numer, rat.denom, simp)

\* Rational.scale, on object x of heap h: [heap, ret].
scale(h, x, k) ==
  IF k = 0 THEN [heap |-> h, ret |-> Raise("ZeroDivisionError")]
  ELSE [heap |-> [h EXCEPT ![x] = Rat(h[x].numer * k, h[x].denom * k)],
        ret |-> None]

\* Rational.reciprocal: the guard reads x.denom, which is never 0; a zero
\* numerator is caught by the constructor it calls.
reciprocal_noraise(x) == Rat(x.denom, x.numer)

reciprocal(x) ==
  IF x.denom = 0 THEN Raise("ZeroDivisionError")
  ELSE Rational(x.denom, x.numer, FALSE)

\* Rational.match_denominators on objects a, b of heap h: [heap, ret].
\* No denominator of a constructed Rational is 0, so scale never raises here.
match_denominators(h, a, b) ==
  IF h[a].denom # h[b].denom
  THEN LET a_denom == h[a].denom
           h1 == scale(h, a, h[b].denom).heap
           h2 == scale(h1, b, a_denom).heap
       IN  [heap |-> h2, ret |-> h2[a].denom]
  ELSE [heap |-> h, ret |-> h[a].denom]

\* Rational.multiply
multiply(a, b, simp) == Rational(a.numer * b.numer, a.denom * b.denom, simp)

\* Rational.divide
divide(a, b, simp) ==
  LET r == reciprocal(b)
  IN  IF IsErr(r) THEN r ELSE multiply(a, r, simp)

\* The two statements a.simplify(); b.simplify() that end add and subtract.
SimplifyBoth_skip(h, a, b) == h

SimplifyBoth(h, a, b) ==
  LET h1 == [h EXCEPT ![a] = simplify(h[a])]
  IN  [h1 EXCEPT ![b] = simplify(h1[b])]

\* Rational.add on objects a, b of heap h (a = b: the same object).
add(h, a, b, simp) ==
  LET m == match_denominators(h, a, b)
      res == Rational(m.heap[a].numer + m.heap[b].numer, m.ret, simp)
  IN  [heap |-> SimplifyBoth(m.heap, a, b), ret |-> res]

\* Rational.subtract
subtract(h, a, b, simp) ==
  LET m == match_denominators(h, a, b)
      res == Rational(m.heap[a].numer - m.heap[b].numer, m.ret, simp)
  IN  [heap |-> SimplifyBoth(m.heap, a, b), ret |-> res]

is_positive(r) == r.numer > 0 /\ r.denom > 0
is_zero(r) == r.numer = 0
is_negative(r) == ~is_positive(r) /\ ~is_zero(r)

\* Rational.__eq__
eq(a, b) ==
  LET x == copy(a, TRUE)
      y == copy(b, TRUE)
  IN  x.numer = y.numer /\ x.denom = y.denom

\* Mathematical equality and sign of two fractions with non-zero denominators.
SameValue(a, b) == a.numer * b.denom = b.numer * a.denom
NonNegative(r) == r.numer * r.denom >= 0

(***************************************************************************)
(* RatSpec: two Rational objects a and b are constructed, then one public  *)
(* operation is called on them.                                            *)
(***************************************************************************)
Objs == {"a", "b"}
Ints == (-MaxInt)..MaxInt

\* Every Rational the constructor builds from the bounded integers.
Constructed ==
  {Rational(n, d, simp) : n \in Ints, d \in Ints \ {0}, simp \in BOOLEAN}

Call(o, a, b, simp, h) ==
  [op |-> o, a |-> a, b |-> b, simp |-> simp, before |-> h]

ExprOff ==
  /\ s = <<>> /\ pc = "off" /\ ex = None /\ pemdasTokens = <<>>
  /\ tokens = <<>> /\ result = None

EgOff ==
  /\ egSelf = None /\ egX = None /\ egI = 0 /\ egResult = <<>> /\ egPc = "off"

RatInit ==
  /\ heap \in [Objs -> Constructed]
  /\ lastCall = Call("init", "a", "a", FALSE, heap)
  /\ ret = None
  /\ ExprOff
  /\ EgOff

Idle == lastCall.op = "init"

\* x.simplify()
Simplify(x) ==
  /\ Idle
  /\ heap' = [heap EXCEPT ![x] = simplify(heap[x])]
  /\ lastCall' = Call("simplify", x, x, FALSE, heap)
  /\ ret' = None
  /\ UNCHANGED <<exprVars, egVars>>

\* x.scale(k)
Scale(x, k) ==
  /\ Idle
  /\ LET r == scale(heap, x, k)
     IN  /\ heap' = r.heap
         /\ ret' = r.ret
  /\ lastCall' = Call("scale", x, x, FALSE, heap)
  /\ UNCHANGED <<exprVars, egVars>>

\* Rational.reciprocal(x)
Reciprocal(x) ==
  /\ Idle
  /\ ret' = reciprocal(heap[x])
  /\ lastCall' = Call("reciprocal", x, x, FALSE, heap)
  /\ UNCHANGED <<heap, exprVars, egVars>>

\* Rational.multiply(a, b, simp)
Multiply(a, b, simp) ==
  /\ Idle
  /\ ret' = multiply(heap[a], heap[b], simp)
  /\ lastCall' = Call("multiply", a, b, simp, heap)
  /\ UNCHANGED <<heap, exprVars, egVars>>

\* Rational.divide(a, b, simp)
Divide(a, b, simp) ==
  /\ Idle
  /\ ret' = divide(heap[a], heap[b], simp)
  /\ lastCall' = Call("divide", a, b, simp, heap)
  /\ UNCHANGED <<heap, exprVars, egVars>>

\* a == b
Eq(a, b) ==
  /\ Idle
  /\ ret' = [kind |-> "bool", value |-> eq(heap[a], heap[b])]
  /\ lastCall' = Call("eq", a, b, FALSE, heap)
  /\ UNCHANGED <<heap, exprVars, egVars>>

\* Rational.add(a, b, simp)
Add(a, b, simp) ==
  /\ Idle
  /\ LET r == add(heap, a, b, simp)
     IN  /\ heap' = r.heap
         /\ ret' = r.ret
  /\ lastCall' = Call("add", a, b, simp, heap)
  /\ UNCHANGED <<exprVars, egVars>>

\* Rational.subtract(a, b, simp)
Subtract(a, b, simp) ==
  /\ Idle
  /\ LET r == subtract(heap, a, b, simp)
     IN  /\ heap' = r.heap
         /\ ret' = r.ret
  /\ lastCall' = Call("subtract", a, b, simp, heap)
  /\ UNCHANGED <<exprVars, egVars>>

RatNext ==
  \/ \E x \in Objs : Simplify(x)
  \/ \E x \in Objs, k \in Ints : Scale(x, k)
  \/ \E x \in Objs : Reciprocal(x)
  \/ \E a \in Objs, b \in Objs, simp \in BOOLEAN : Multiply(a, b, simp)
  \/ \E a \in Objs, b \in Objs, simp \in BOOLEAN : Divide(a, b, simp)
  \/ \E a \in Objs, b \in Objs, simp \in BOOLEAN : Add(a, b, simp)
  \/ \E a \in Objs, b \in Objs, simp \in BOOLEAN : Subtract(a, b, simp)
  \/ \E a \in Objs, b \in Objs : Eq(a, b)

RatSpec == RatInit /\ [][RatNext]_vars

(***************************************************************************)
(* Tokens and expressions.  A text is a sequence of one-character strings. *)
(* A Token is [operation, value] with exactly one of the two set; an       *)
(* Expression is [kind |-> "expr", tokens].                                *)
(***************************************************************************)
NoOperation == "None"
OperationToken(o) == [operation |-> o, value |-> None]
ValueToken(v) == [operation |-> NoOperation, value |-> v]
Expression(toks) == [kind |-> "expr", tokens |-> toks]

\* Token.is_operation, Token.is_value
is_operation(t) == t.operation # NoOperation
is_value(t) == t.value # None

\* Calculatable.is_expression
is_expression(v) == v.kind = "expr"

DigitChars == {"0", "1", "2", "3", "4", "5", "6", "7", "8", "9"}
OperatorChars == {"+", "-", "*", "/", "^"}

\* is_digit: int(x) succeeds
is_digit(c) == c \in DigitChars

DigitVal(c) ==
  CASE c = "0" -> 0 [] c = "1" -> 1 [] c = "2" -> 2 [] c = "3" -> 3
    [] c = "4" -> 4 [] c = "5" -> 5 [] c = "6" -> 6 [] c = "7" -> 7
    [] c = "8" -> 8 [] c = "9" -> 9

\* Operation.parse
Operation_parse(c) ==
  CASE c = "+" -> "ADD" [] c = "-" -> "SUBTRACT" [] c = "*" -> "MULTIPLY"
    [] c = "/" -> "DIVIDE" [] c = "^" -> "EXPONENT"

RECURSIVE IntOf(_)
IntOf(ds) ==
  IF ds = <<>> THEN 0
  ELSE 10 * IntOf(SubSeq(ds, 1, Len(ds) - 1)) + DigitVal(ds[Len(ds)])

RECURSIVE Pow10(_)
Pow10(k) == IF k = 0 THEN 1 ELSE 10 * Pow10(k - 1)

\* Rational.parse of a literal made of digits and points: Decimal(s) accepts
\* at most one point and needs a digit; as_integer_ratio is in lowest terms.
Rational_parse(w) ==
  LET IsDot(c) == c = "."
      IsDig(c) == c \in DigitChars
      dots == SelectSeq(w, IsDot)
      digits == SelectSeq(w, IsDig)
      dot == CHOOSE k \in 1..Len(w) : w[k] = "."
      frac == IF dots = <<>> THEN 0 ELSE Len(w) - dot
      n == IntOf(digits)
      sc == Pow10(frac)
      g == gcd(n, sc)
  IN  IF Len(dots) > 1 \/ digits = <<>> THEN Raise("ValueError")
      ELSE Rational(n \div g, sc \div g, TRUE)

\* find_matching_parens(s, i): the index of the ")" closing the "(" at i;
\* 0 stands for the ValueError it raises when there is none.
RECURSIVE FindFrom(_, _, _)
FindFrom(str, j, level) ==
  IF j > Len(str) THEN 0
  ELSE IF str[j] = "(" THEN FindFrom(str, j + 1, level + 1)
  ELSE IF str[j] = ")"
       THEN IF level = 0 THEN j ELSE FindFrom(str, j + 1, level - 1)
  ELSE FindFrom(str, j + 1, level)

find_matching_parens(str, i) == FindFrom(str, i + 1, 0)

\* s.replace(" ", "")
StripSpaces(str) ==
  LET NotSpace(c) == c # " "
  IN  SelectSeq(str, NotSpace)

\* The test of Expression.parse that puts a MULTIPLY before a group.
ImplicitMultiply_always(toks) == TRUE

ImplicitMultiply_never(toks) == FALSE

\* if len(ex.tokens) > 0 and ex.tokens[-1].is_value()
ImplicitMultiply(toks) == Len(toks) > 0 /\ is_value(toks[Len(toks)])

\* Expression.parse: the scan from index i (1-based) with the tokens emitted
\* so far and the literal being built (building_digit is working # <<>>).
RECURSIVE ParseFrom(_, _, _, _)
ParseFrom(str, i, toks, working) ==
  LET x == Rational_parse(working)
      flushed == IF working = <<>> THEN toks ELSE Append(toks, ValueToken(x))
  IN  IF working # <<>> /\ (i > Len(str) \/ ~(is_digit(str[i]) \/ str[i] = "."))
         /\ IsErr(x)
      THEN x
      ELSE IF i > Len(str) THEN Expression(flushed)
      ELSE IF is_digit(str[i]) \/ str[i] = "."
           THEN ParseFrom(str, i + 1, toks, Append(working, str[i]))
      ELSE IF str[i] \in OperatorChars
           THEN ParseFrom(str, i + 1,
                          Append(flushed, OperationToken(Operation_parse(str[i]))),
                          <<>>)
      ELSE IF str[i] = "("
           THEN LET withMul == IF ImplicitMultiply(flushed)
                               THEN Append(flushed, OperationToken("MULTIPLY"))
                               ELSE flushed
                    loc == find_matching_parens(str, i)
                    subex == ParseFrom(SubSeq(str, i + 1, loc - 1), 1, <<>>, <<>>)
                IN  IF loc = 0 THEN Raise("ValueError")
                    ELSE IF IsErr(subex) THEN subex
                    ELSE ParseFrom(str, loc + 1,
                                   Append(withMul, ValueToken(subex)), <<>>)
      ELSE Raise("ValueError")

Expression_parse(str) == ParseFrom(StripSpaces(str), 1, <<>>, <<>>)

(***************************************************************************)
(* Validity, consolidation (PEMDAS) and evaluation.                        *)
(***************************************************************************)
\* Expression.is_valid: the loop checks the alternation token by token and
\* returns True when the tokens run out, whatever the last token was.
RECURSIVE ValidFrom(_, _, _)
ValidFrom(toks, k, on_value) ==
  IF k > Len(toks) THEN TRUE
  ELSE IF is_value(toks[k]) # on_value THEN FALSE
  ELSE ValidFrom(toks, k + 1, ~on_value)

is_valid(toks) == ValidFrom(toks, 1, TRUE)

\* The scan of consolidate: the first index >= i (0-based, as in the code)
\* holding an operator of the tier, -1 when the scan runs off the list.
RECURSIVE NextMatch_last(_, _, _)
NextMatch_last(toks, operations, i) ==
  IF i >= Len(toks) THEN -1
  ELSE LET later == NextMatch_last(toks, operations, i + 1)
       IN  IF later # -1 THEN later
           ELSE IF is_operation(toks[i + 1]) /\ toks[i + 1].operation \in operations
                THEN i
           ELSE -1

RECURSIVE NextMatch(_, _, _)
NextMatch(toks, operations, i) ==
  IF i >= Len(toks) THEN -1
  ELSE IF is_operation(toks[i + 1]) /\ toks[i + 1].operation \in operations
       THEN i
  ELSE NextMatch(toks, operations, i + 1)

\* Lines 219-220: the triple around index i (0-based) becomes one value token.
\* With i = 0 Python's tokens[i - 1] is the last token and tokens[:i - 1]
\* drops it.
Collapse_swapped(toks, i) ==
  LET n == Len(toks)
      left == IF i = 0 THEN toks[n] ELSE toks[i]
      e == Expression(<<toks[i + 2], toks[i + 1], left>>)
      prefix == IF i = 0 THEN SubSeq(toks, 1, n - 1) ELSE SubSeq(toks, 1, i - 1)
  IN  prefix \o <<ValueToken(e)>> \o SubSeq(toks, i + 3, n)

Collapse(toks, i) ==
  LET n == Len(toks)
      left == IF i = 0 THEN toks[n] ELSE toks[i]
      e == Expression(<<left, toks[i + 1], toks[i + 2]>>)
      prefix == IF i = 0 THEN SubSeq(toks, 1, n - 1) ELSE SubSeq(toks, 1, i - 1)
  IN  prefix \o <<ValueToken(e)>> \o SubSeq(toks, i + 3, n)

\* Expression.consolidate from scan index i: [tokens, raised].  tokens[i + 1]
\* raises IndexError when the operator found is the last token; after a
\* collapse the scan restarts with i = 0 followed by i += 1.
RECURSIVE ConsolidateFrom(_, _, _)
ConsolidateFrom(toks, operations, i) ==
  LET m == NextMatch(toks, operations, i)
  IN  IF Len(toks) < 4 \/ m = -1 THEN [tokens |-> toks, raised |-> None]
      ELSE IF m + 1 >= Len(toks)
           THEN [tokens |-> toks, raised |-> Raise("IndexError")]
      ELSE ConsolidateFrom(Collapse(toks, m), operations, 1)

consolidate(toks, operations) == ConsolidateFrom(toks, operations, 0)

\* The tiers of Expression.pemdas, in the order of its three calls.
Tiers_reversed == <<{"ADD", "SUBTRACT"}, {"MULTIPLY", "DIVIDE"}, {"EXPONENT"}>>

Tiers == <<{"EXPONENT"}, {"MULTIPLY", "DIVIDE"}, {"ADD", "SUBTRACT"}>>

\* Expression.pemdas: [tokens, raised]
pemdas(toks) ==
  LET c1 == consolidate(toks, Tiers[1])
      c2 == consolidate(c1.tokens, Tiers[2])
      c3 == consolidate(c2.tokens, Tiers[3])
  IN  IF IsErr(c1.raised) THEN c1
      ELSE IF IsErr(c2.raised) THEN c2
      ELSE c3

\* A float that is not a whole number within PowCap: its value is not tracked.
Inexact == [kind |-> "float"]

\* base ** e for integers, e >= 0: [ok, v], ok false beyond PowCap.
RECURSIVE PowCapped(_, _)
PowCapped(base, e) ==
  IF e = 0 THEN [ok |-> TRUE, v |-> 1]
  ELSE LET r == PowCapped(base, e - 1)
       IN  IF ~r.ok THEN r
           ELSE IF base # 0 /\ Abs(r.v) > PowCap \div Abs(base)
                THEN [ok |-> FALSE, v |-> 0]
           ELSE [ok |-> TRUE, v |-> r.v * base]

IsWhole(r) == r.numer % Abs(r.denom) = 0

\* Rational(a.as_float() ** b.as_float()): exact for a whole base and a whole
\* non-negative exponent; 0.0 to a negative power raises ZeroDivisionError.
float_pow(a, b) ==
  IF a.numer = 0 /\ b.numer * b.denom < 0 THEN Raise("ZeroDivisionError")
  ELSE IF IsWhole(a) /\ IsWhole(b) /\ b.numer * b.denom >= 0
       THEN LET r == PowCapped(IntDiv(a.numer, a.denom), IntDiv(b.numer, b.denom))
            IN  IF r.ok THEN Rat(r.v, 1) ELSE Inexact
  ELSE Inexact

\* op(a, b, operation) on two distinct objects: [ret, a, b] with the operands
\* as add and subtract leave them.
op(a, b, operation) ==
  LET h == [o \in Objs |-> IF o = "a" THEN a ELSE b]
      same(r) == [ret |-> r, a |-> a, b |-> b]
      both(r) == [ret |-> r.ret, a |-> r.heap["a"], b |-> r.heap["b"]]
  IN  IF ~IsRat(a) \/ ~IsRat(b) THEN same(Inexact)
      ELSE CASE operation = "ADD" -> both(add(h, "a", "b", TRUE))
             [] operation = "SUBTRACT" -> both(subtract(h, "a", "b", TRUE))
             [] operation = "MULTIPLY" -> same(multiply(a, b, TRUE))
             [] operation = "DIVIDE" -> same(divide(a, b, TRUE))
             [] operation = "EXPONENT" -> same(float_pow(a, b))
             [] OTHER -> same(Raise("ValueError"))

\* Rational.calculate returns self, and an Expression of one token returns
\* what that token's value returns: the object an operand names may be a
\* literal inside the tree, which add and subtract then change in place.
RECURSIVE WriteBack(_, _)
WriteBack(child, operand) ==
  IF IsRat(child) THEN operand
  ELSE IF is_expression(child) /\ Len(child.tokens) = 1 /\ is_value(child.tokens[1])
       THEN Expression(<<ValueToken(WriteBack(child.tokens[1].value, operand))>>)
  ELSE child

\* calculate of a Rational or an Expression: [ret, self, pemdas], self the
\* object afterwards and pemdas its tokens right after self.pemdas().
RECURSIVE calculate(_)
calculate(v) ==
  IF ~is_expression(v) THEN [ret |-> v, self |-> v, pemdas |-> <<>>]
  ELSE
    LET toks == v.tokens
        p == pemdas(toks)
        out(r, ts) == [ret |-> r, self |-> Expression(ts), pemdas |-> p.tokens]
        ra == calculate(p.tokens[1].value)
        t1 == [p.tokens EXCEPT ![1] = ValueToken(ra.self)]
        rb == calculate(p.tokens[3].value)
        t2 == [t1 EXCEPT ![3] = ValueToken(rb.self)]
        o == op(ra.ret, rb.ret, p.tokens[2].operation)
        t3 == [t2 EXCEPT ![1] = ValueToken(WriteBack(ra.self, o.a)),
                         ![3] = ValueToken(WriteBack(rb.self, o.b))]
        only == calculate(toks[1].value)
    IN  IF ~is_valid(toks)
        THEN [ret |-> Raise("InvalidExpression"), self |-> v, pemdas |-> toks]
        ELSE IF Len(toks) = 1
        THEN [ret |-> only.ret, self |-> Expression(<<ValueToken(only.self)>>),
              pemdas |-> toks]
        ELSE IF IsErr(p.raised) THEN out(p.raised, p.tokens)
        ELSE IF ~is_valid(p.tokens) THEN out(Raise("InternalError"), p.tokens)
        ELSE IF Len(p.tokens) < 1 THEN out(Raise("IndexError"), p.tokens)
        ELSE IF IsErr(ra.ret) THEN out(ra.ret, t1)
        ELSE IF Len(p.tokens) < 3 THEN out(Raise("IndexError"), t1)
        ELSE IF IsErr(rb.ret) THEN out(rb.ret, t2)
        ELSE out(o.ret, t3)

(***************************************************************************)
(* Spec: app.py hands a text to Expression.parse and calls calculate on    *)
(* what it returns.  The texts are every text of at most MaxLen characters *)
(* over Alphabet, every chain of up to four literals, the grouped forms of *)
(* three and four literals, and the examples of the documentation.         *)
(***************************************************************************)
Alphabet == {"0", "2", "3", "+", "-", "*", "/", "^", "(", ")"}
Literals == {"0", "2", "3"}

Short == UNION {[1..k -> Alphabet] : k \in 0..MaxLen}

Chain2 == {<<a, o, b>> : a \in Literals, o \in OperatorChars, b \in Literals}
Chain3 == {c \o <<o, d>> : c \in Chain2, o \in OperatorChars, d \in Literals}
Chain4 == {c \o <<o, d>> : c \in Chain3, o \in OperatorChars, d \in Literals}

Grouped ==
  UNION {{<<"(">> \o c \o <<")", o, d>>,
          <<d, o, "(">> \o c \o <<")">>,
          <<d, "(">> \o c \o <<")">>,
          <<"(">> \o c \o <<")", "(", d, ")">>,
          <<"(">> \o c \o <<")", d>>}
         : c \in Chain2, o \in OperatorChars, d \in Literals}

Examples ==
  { <<"2", "+", "3", "*", "4">>,
    <<"(", "2", "+", "3", ")", "*", "4">>,
    <<"1", "/", "2", " ", "+", " ", "1", "/", "3">>,
    <<"1", "/", "3", " ", "+", " ", "1", "/", "3", " ", "+", " ", "1", "/", "3">>,
    <<"1", "/", "3", "+", "1", "/", "3", "+", "1", "/", "3">>,
    <<"2", "^", "3", "^", "2">>,
    <<"2", "(", "3", "+", "1", ")">>,
    <<"2", "*", "(", "3", "+", "1", ")">>,
    <<"(", "1", "+", "1", ")", "(", "2", "+", "2", ")">>,
    <<"(", "1", "+", "1", ")", "*", "(", "2", "+", "2", ")">>,
    <<"(", "1", "+", "2">>,
    <<"1", "/", "0">>,
    <<"1", "/", "(", "1", "-", "1", ")">>,
    <<"1", "/", "(", "0", "-", "2", ")">>,
    <<"(", "0", "-", "3", ")", "/", "(", "0", "-", "4", ")">>,
    <<"2", "+", "1", "/", "(", "0", "-", "2", ")">>,
    <<"(", "(", "2", ")", ")", "-", "1", "/", "(", "0", "-", "2", ")">>,
    <<"1", "+", "*", "2">>,
    <<"1", ".", "5", "+", "1">>,
    <<"0", ".", "1">>,
    <<"1", ".", "2", ".", "3">>,
    <<"2", "x">>,
    <<"8", "/", "2", "/", "2", "-", "(", "5", "-", "2", "-", "1", ")">>,
    <<"(", "1", "+", "2", "*", "3", "-", "4", ")", "*", "2">> }

Inputs == Short \cup Chain2 \cup Chain3 \cup Chain4 \cup Grouped \cup Examples

Init ==
  /\ s \in Inputs
  /\ pc = "input"
  /\ ex = None
  /\ pemdasTokens = <<>>
  /\ tokens = <<>>
  /\ result = None
  /\ heap = [o \in Objs |-> Rat(0, 1)]
  /\ lastCall = Call("off", "a", "a", FALSE, heap)
  /\ ret = None
  /\ EgOff

\* ex = Expression.parse(" ".join(args.expression)); a ValueError ends the run
Parse ==
  /\ pc = "input"
  /\ ex' = Expression_parse(s)
  /\ pc' = IF IsErr(ex') THEN "failed" ELSE "parsed"
  /\ UNCHANGED <<s, pemdasTokens, tokens, result, ratVars, egVars>>

\* ex.calculate()
Calculate ==
  /\ pc = "parsed"
  /\ LET r == calculate(ex)
     IN  /\ result' = r.ret
         /\ tokens' = r.self.tokens
         /\ pemdasTokens' = r.pemdas
  /\ pc' = "done"
  /\ UNCHANGED <<s, ex, ratVars, egVars>>

Next == Parse \/ Calculate

Spec == Init /\ [][Next]_vars

(***************************************************************************)
(* EgSpec: Rational.as_egyptian_fraction, one loop iteration per step.     *)
(* self is any constructed Rational of value 0 to 1 with fields up to      *)
(* EgMaxDen; the loop is followed for IterCap iterations.                  *)
(***************************************************************************)
EgInts == (-EgMaxDen)..EgMaxDen

EgInputs ==
  {Rational(n, d, simp) : n \in EgInts, d \in EgInts \ {0}, simp \in BOOLEAN}

EgInit ==
  /\ egSelf \in {r \in EgInputs : NonNegative(r) /\ Abs(r.numer) <= Abs(r.denom)}
  /\ egX = None
  /\ egI = 0
  /\ egResult = <<>>
  /\ egPc = "idle"
  /\ heap = [o \in Objs |-> Rat(0, 1)]
  /\ lastCall = Call("off", "a", "a", FALSE, heap)
  /\ ret = None
  /\ ExprOff

\* x = Rational.copy(self); result = []; i = 2
EgCall ==
  /\ egPc = "idle"
  /\ egX' = copy(egSelf, TRUE)
  /\ egResult' = <<>>
  /\ egI' = 2
  /\ egPc' = "loop"
  /\ UNCHANGED <<egSelf, exprVars, ratVars>>

\* The test of the loop body that keeps a candidate.
Keeps(y) == ~is_negative(y)

\* One iteration of the while loop: subtract leaves x and candidate
\* simplified, whether the candidate is kept or not.
EgIterate ==
  /\ egPc = "loop"
  /\ ~is_zero(egX)
  /\ egI <= IterCap
  /\ LET h == [o \in Objs |-> IF o = "a" THEN egX ELSE Rational(1, egI, TRUE)]
         r == subtract(h, "a", "b", TRUE)
     IN  IF Keeps(r.ret)
         THEN /\ egResult' = Append(egResult, r.heap["b"])
              /\ egX' = r.ret
         ELSE /\ egResult' = egResult
              /\ egX' = r.heap["a"]
  /\ egI' = egI + 1
  /\ UNCHANGED <<egSelf, egPc, exprVars, ratVars>>

\* return result
EgReturn ==
  /\ egPc = "loop"
  /\ is_zero(egX)
  /\ egPc' = "done"
  /\ UNCHANGED <<egSelf, egX, egI, egResult, exprVars, ratVars>>

EgNext == EgCall \/ EgIterate \/ EgReturn

EgSpec == EgInit /\ [][EgNext]_vars

(***************************************************************************)
(* What the claims are measured against: the alternation invariant, the    *)
(* grammar of the documentation and a reference evaluator, none of which   *)
(* uses the definitions above.                                             *)
(***************************************************************************)
\* The alternation invariant: value, operator, value, ..., from a value to
\* a value.
Alternates(toks) ==
  /\ Len(toks) % 2 = 1
  /\ \A k \in 1..Len(toks) :
       IF k % 2 = 1
       THEN toks[k].value # None /\ toks[k].operation = NoOperation
       ELSE toks[k].value = None /\ toks[k].operation # NoOperation

\* The alternation invariant at the top level and in every nested group.
RECURSIVE DeepAlternates(_)
DeepAlternates(toks) ==
  /\ Alternates(toks)
  /\ \A k \in 1..Len(toks) :
       toks[k].value.kind = "expr" => DeepAlternates(toks[k].value.tokens)

\* The text without its blanks.
RECURSIVE Unblank(_)
Unblank(str) ==
  IF str = <<>> THEN <<>>
  ELSE IF Head(str) = " " THEN Unblank(Tail(str))
  ELSE <<Head(str)>> \o Unblank(Tail(str))

\* expr := term (operator term)*, term := number | '(' expr ')', number :=
\* digit+ ('.' digit+)?, and a '(' directly after a term starts a term.
\* Each operator gives the index after the longest match from i, 0 for none.
RECURSIVE GrammarDigits(_, _)
GrammarDigits(str, i) ==
  IF i <= Len(str) /\ str[i] \in DigitChars THEN GrammarDigits(str, i + 1) ELSE i

GrammarNumber(str, i) ==
  LET p == GrammarDigits(str, i)
      q == GrammarDigits(str, p + 1)
  IN  IF p = i THEN 0
      ELSE IF p <= Len(str) /\ str[p] = "." THEN (IF q = p + 1 THEN 0 ELSE q)
      ELSE p

RECURSIVE GrammarExpr(_, _)
RECURSIVE GrammarTerm(_, _)
RECURSIVE GrammarRest(_, _)
GrammarTerm(str, i) ==
  IF i > Len(str) THEN 0
  ELSE IF str[i] = "("
       THEN LET p == GrammarExpr(str, i + 1)
            IN  IF p # 0 /\ p <= Len(str) /\ str[p] = ")" THEN p + 1 ELSE 0
  ELSE GrammarNumber(str, i)

GrammarRest(str, p) ==
  IF p = 0 \/ p > Len(str) THEN p
  ELSE IF str[p] \in OperatorChars THEN GrammarRest(str, GrammarTerm(str, p + 1))
  ELSE IF str[p] = "(" THEN GrammarRest(str, GrammarTerm(str, p))
  ELSE p

GrammarExpr(str, i) == GrammarRest(str, GrammarTerm(str, i))

MatchesGrammar(str) ==
  LET u == Unblank(str)
  IN  GrammarExpr(u, 1) = Len(u) + 1

\* The reference evaluator: parentheses first, then * and / left to right,
\* then + and - left to right, on fractions n/d that are never reduced.
\* A result is [ok, dz, n, d, pos]: ok that a match was found, dz that a
\* division by zero was met, pos the index after the match.
RefFail == [ok |-> FALSE, dz |-> FALSE, n |-> 0, d |-> 1, pos |-> 0]
RefVal(n, d, dz, pos) == [ok |-> TRUE, dz |-> dz, n |-> n, d |-> d, pos |-> pos]

RefApply(o, a, b) ==
  IF a.dz \/ b.dz THEN RefVal(0, 1, TRUE, b.pos)
  ELSE CASE o = "+" -> RefVal(a.n * b.d + b.n * a.d, a.d * b.d, FALSE, b.pos)
         [] o = "-" -> RefVal(a.n * b.d - b.n * a.d, a.d * b.d, FALSE, b.pos)
         [] o = "*" -> RefVal(a.n * b.n, a.d * b.d, FALSE, b.pos)
         [] o = "/" -> IF b.n = 0 THEN RefVal(0, 1, TRUE, b.pos)
                       ELSE RefVal(a.n * b.d, a.d * b.n, FALSE, b.pos)

RECURSIVE RefInt(_, _, _)
RefInt(str, i, acc) ==
  IF i <= Len(str) /\ str[i] \in DigitChars
  THEN RefInt(str, i + 1, 10 * acc + DigitVal(str[i]))
  ELSE RefVal(acc, 1, FALSE, i)

RECURSIVE RefSum(_, _)
RECURSIVE RefSumRest(_, _)
RECURSIVE RefProduct(_, _)
RECURSIVE RefProductRest(_, _)
RECURSIVE RefFactor(_, _)
RefFactor(str, i) ==
  IF i > Len(str) THEN RefFail
  ELSE IF str[i] \in DigitChars THEN RefInt(str, i, 0)
  ELSE IF str[i] = "("
       THEN LET r == RefSum(str, i + 1)
            IN  IF r.ok /\ r.pos <= Len(str) /\ str[r.pos] = ")"
                THEN [r EXCEPT !.pos = r.pos + 1]
                ELSE RefFail
  ELSE RefFail

RefProductRest(str, acc) ==
  IF ~acc.ok \/ acc.pos > Len(str) THEN acc
  ELSE IF str[acc.pos] \in {"*", "/"}
       THEN LET f == RefFactor(str, acc.pos + 1)
            IN  IF f.ok THEN RefProductRest(str, RefApply(str[acc.pos], acc, f))
                ELSE RefFail
  ELSE IF str[acc.pos] = "("
       THEN LET f == RefFactor(str, acc.pos)
            IN  IF f.ok THEN RefProductRest(str, RefApply("*", acc, f))
                ELSE RefFail
  ELSE acc

RefProduct(str, i) == RefProductRest(str, RefFactor(str, i))

RefSumRest(str, acc) ==
  IF ~acc.ok \/ acc.pos > Len(str) THEN acc
  ELSE IF str[acc.pos] \in {"+", "-"}
       THEN LET f == RefProduct(str, acc.pos + 1)
            IN  IF f.ok THEN RefSumRest(str, RefApply(str[acc.pos], acc, f))
                ELSE RefFail
  ELSE acc

RefSum(str, i) == RefSumRest(str, RefProduct(str, i))

\* The reference value of a text of integer literals, + - * / and
\* parentheses; ok is false for any other text.
Reference(str) ==
  LET u == Unblank(str)
      r == RefSum(u, 1)
  IN  IF r.ok /\ r.pos = Len(u) + 1 THEN r ELSE RefFail

(***************************************************************************)
(* The claims.                                                             *)
(***************************************************************************)
ZeroDivision == Raise("ZeroDivisionError")
Text2Plus3Times4 == <<"2", "+", "3", "*", "4">>
Text2Group == <<"2", "(", "3", "+", "1", ")">>
TextGroupGroup == <<"(", "1", "+", "1", ")", "(", "2", "+", "2", ")">>
TextPowers == <<"2", "^", "3", "^", "2">>

\* C1: for every text the reference evaluator accepts (integer literals,
\* + - * / and parentheses), Expression.parse does not fail and calculate
\* returns a Rational equal in value to the reference result (parentheses
\* first, then * and / left to right, then + and - left to right, in exact
\* fractions); where the reference meets a division by zero, calculate
\* raises ZeroDivisionError.
C1_MatchesReference ==
  LET r == Reference(s)
  IN  r.ok =>
        /\ pc # "failed"
        /\ pc = "done" =>
             IF r.dz THEN result = ZeroDivision
             ELSE /\ IsRat(result)
                  /\ result.denom # 0
                  /\ result.numer * r.d = r.n * result.denom

\* 2+3*4 has been evaluated to 14.
C1_Witness ==
  pc = "done" /\ s = Text2Plus3Times4 /\ Reference(s).ok /\ result = Rat(14, 1)

\* C2 as stated: whatever Expression.parse returns satisfies the alternation
\* invariant at the top level and in every nested group.
C2_ParseReturnsValid ==
  pc \in {"parsed", "done"} => DeepAlternates(ex.tokens)

GrammarText(str) ==
  \A k \in 1..Len(str) :
    str[k] \in DigitChars \cup OperatorChars \cup {"(", ")", " "}

\* C2 as amended: for a text of digits, operators, parentheses and blanks,
\* Expression.parse returns an Expression satisfying the alternation
\* invariant at every level exactly when the text matches the grammar (with
\* the implicit-multiplication rule); any other text is either refused with
\* a parse error or returned as an Expression that violates the invariant.
C2_ValidIffGrammar ==
  (pc # "input" /\ GrammarText(s)) =>
     ((pc # "failed" /\ DeepAlternates(ex.tokens)) <=> MatchesGrammar(s))

\* 2(3) has been parsed into value, operator, value with a nested group.
C2_Witness ==
  /\ pc = "parsed"
  /\ s = <<"2", "(", "3", ")">>
  /\ MatchesGrammar(s)
  /\ Len(ex.tokens) = 3
  /\ DeepAlternates(ex.tokens)

\* C3: calculate on an Expression whose tokens do not alternate from a value
\* to a value (a last operator and the empty list included) raises the
\* invalid-expression error at its first check: nothing is consolidated and
\* the token list is unchanged.
C3_InvalidRejectedAtFirstCheck ==
  (pc = "done" /\ ~Alternates(ex.tokens)) =>
     /\ result = Raise("InvalidExpression")
     /\ pemdasTokens = ex.tokens
     /\ tokens = ex.tokens

\* The "(" of a text that directly follow a literal or a ")".
ImplicitSites(u) ==
  {k \in 2..Len(u) : u[k] = "(" /\ u[k - 1] \in DigitChars \cup {".", ")"}}

\* The text with a "*" written at every implicit site.
RECURSIVE WithStarsFrom(_, _)
WithStarsFrom(u, k) ==
  IF k > Len(u) THEN <<>>
  ELSE (IF k \in ImplicitSites(u) THEN <<"*", u[k]>> ELSE <<u[k]>>)
       \o WithStarsFrom(u, k + 1)

WithStars(u) == WithStarsFrom(u, 1)

RECURSIVE CountMultiply(_)
CountMultiply(toks) ==
  IF toks = <<>> THEN 0
  ELSE (IF Head(toks).operation = "MULTIPLY" THEN 1 ELSE 0)
       + (IF Head(toks).value.kind = "expr"
          THEN CountMultiply(Head(toks).value.tokens) ELSE 0)
       + CountMultiply(Tail(toks))

CountStars(u) == Cardinality({k \in 1..Len(u) : u[k] = "*"})

\* C4: Expression.parse puts a MULTIPLY token before a parenthesis group
\* exactly when the group directly follows a literal or another group: the
\* tokens are those of the text with a "*" written at each such place, and
\* there are as many MULTIPLY tokens as "*" characters and such places, so
\* none before a group that is first or follows an operator; 2(3+1) and
\* (1+1)(2+2) evaluate to 8.
C4_ImplicitMultiply ==
  LET u == Unblank(s)
  IN  /\ pc \in {"parsed", "done"} =>
           /\ ex = Expression_parse(WithStars(u))
           /\ CountMultiply(ex.tokens) = CountStars(u) + Cardinality(ImplicitSites(u))
      /\ (pc = "done" /\ s \in {Text2Group, TextGroupGroup}) => result = Rat(8, 1)

\* (1+1)(2+2) has been parsed with a MULTIPLY between the groups and
\* evaluated to 8.
C4_Witness ==
  /\ pc = "done"
  /\ s = TextGroupGroup
  /\ Len(ex.tokens) = 3
  /\ ex.tokens[2].operation = "MULTIPLY"
  /\ result = Rat(8, 1)

\* C5: Rational.reciprocal(x) raises ZeroDivisionError whenever x.numer is
\* 0, so does Rational.divide(a, x), and neither returns a Rational whose
\* denominator is 0.
C5_ReciprocalOfZeroRaises ==
  /\ (lastCall.op = "reciprocal" /\ lastCall.before[lastCall.a].numer = 0)
        => ret = ZeroDivision
  /\ (lastCall.op = "divide" /\ lastCall.before[lastCall.b].numer = 0)
        => ret = ZeroDivision
  /\ (lastCall.op \in {"reciprocal", "divide"} /\ IsRat(ret)) => ret.denom # 0

\* divide has been called with a divisor of numerator 0 and has raised.
C5_Witness ==
  /\ lastCall.op = "divide"
  /\ lastCall.before[lastCall.b].numer = 0
  /\ lastCall.before[lastCall.a].numer # 0
  /\ ret = ZeroDivision

\* C6: after simplify(), and for every Rational returned by add, subtract,
\* multiply or divide with simplification requested, the denominator is
\* positive.
C6_DenominatorPositive ==
  /\ lastCall.op = "simplify" => heap[lastCall.a].denom > 0
  /\ (lastCall.op \in {"add", "subtract", "multiply", "divide"}
        /\ lastCall.simp /\ IsRat(ret)) => ret.denom > 0

SameTier(o1, o2) ==
  \E T \in {{"EXPONENT"}, {"MULTIPLY", "DIVIDE"}, {"ADD", "SUBTRACT"}} :
    o1 \in T /\ o2 \in T

\* a o b o c o ... grouped from the left: ((a o b) o c) o ...
RECURSIVE LeftGrouped(_)
LeftGrouped(toks) ==
  IF Len(toks) <= 3 THEN toks
  ELSE LeftGrouped(<<ValueToken(Expression(SubSeq(toks, 1, 3)))>>
                   \o SubSeq(toks, 4, Len(toks)))

\* C7: a chain of operators of one precedence tier is grouped leftmost
\* first by consolidation, a o b o c becoming ((a o b) o c) for ^, for * /
\* and for + -; 2^3^2 evaluates to 64.
C7_LeftmostFirst ==
  /\ (/\ pc = "done"
      /\ Alternates(ex.tokens)
      /\ Len(ex.tokens) >= 5
      /\ \A k \in 1..Len(ex.tokens) :
           k % 2 = 0 => SameTier(ex.tokens[k].operation, ex.tokens[2].operation))
        => pemdasTokens = LeftGrouped(ex.tokens)
  /\ (pc = "done" /\ s = TextPowers) => result = Rat(64, 1)

\* 2^3^2 has been consolidated to (2^3)^2 and evaluated to 64.
C7_Witness ==
  /\ pc = "done"
  /\ s = TextPowers
  /\ Len(pemdasTokens) = 3
  /\ pemdasTokens[1].value.kind = "expr"
  /\ result = Rat(64, 1)

\* A fraction of value 1/i, i a positive integer, and that i.
UnitDen(f) == Abs(f.denom) \div Abs(f.numer)
IsUnit(f) ==
  /\ f.numer # 0
  /\ f.numer * f.denom > 0
  /\ Abs(f.numer) * UnitDen(f) = Abs(f.denom)

\* The sum of a list of fractions, as an unreduced fraction.
RECURSIVE SumOf(_)
SumOf(fs) ==
  IF fs = <<>> THEN Rat(0, 1)
  ELSE LET rest == SumOf(Tail(fs))
           f == Head(fs)
       IN  Rat(f.numer * rest.denom + rest.numer * f.denom, f.denom * rest.denom)

EgyptianResultOK ==
  /\ egX.numer = 0
  /\ \A k \in 1..Len(egResult) : IsUnit(egResult[k])
  /\ \A k \in 1..(Len(egResult) - 1) :
       UnitDen(egResult[k]) < UnitDen(egResult[k + 1])
  /\ SameValue(SumOf(egResult), egSelf)

\* C8: for every non-negative Rational self (of value at most 1 and fields
\* up to EgMaxDen), as_egyptian_fraction terminates, here within IterCap
\* iterations, with the remainder exactly zero, and returns unit fractions
\* of strictly increasing denominators whose exact sum is self.
C8_EgyptianFraction ==
  /\ egPc = "loop" => (egX.numer = 0 \/ egI <= IterCap)
  /\ egPc = "done" => EgyptianResultOK

\* The same statement for the inputs whose denominator is positive: it
\* holds, so IterCap is not what stops the other inputs.
EgyptianFractionPositiveDenominator ==
  egSelf.denom > 0 => C8_EgyptianFraction

\* new groups the tokens of orig: each token of new is the next token of
\* orig, or wraps exactly three tokens that group the next tokens of orig.
RECURSIVE Groups(_, _)
Groups(new, orig) ==
  IF new = <<>> THEN orig = <<>>
  ELSE IF orig = <<>> THEN FALSE
  ELSE \/ Head(new) = Head(orig) /\ Groups(Tail(new), Tail(orig))
       \/ /\ Head(new).value.kind = "expr"
          /\ Len(Head(new).value.tokens) = 3
          /\ \E k \in 3..Len(orig) :
               /\ Groups(Head(new).value.tokens, SubSeq(orig, 1, k))
               /\ Groups(Tail(new), SubSeq(orig, k + 1, Len(orig)))

\* C9: for an Expression that satisfies the alternation invariant and has
\* more than 3 tokens, the tokens after pemdas() are exactly 3, of the form
\* (value, operator, value), each wrapper holding exactly three tokens that
\* group adjacent tokens of the original list in their original order; the
\* validity check that follows pemdas() in calculate does not fail.
C9_ThreeTokensAfterPemdas ==
  (pc = "done" /\ Alternates(ex.tokens) /\ Len(ex.tokens) > 3) =>
     /\ Len(pemdasTokens) = 3
     /\ Alternates(pemdasTokens)
     /\ Groups(pemdasTokens, ex.tokens)
     /\ result # Raise("InternalError")

\* A list of seven alternating tokens has been consolidated to three.
C9_Witness ==
  /\ pc = "done"
  /\ Len(ex.tokens) = 7
  /\ Alternates(ex.tokens)
  /\ Len(pemdasTokens) = 3
  /\ pemdasTokens # ex.tokens

Coprime(n, d) ==
  \A g \in 2..Abs(d) : ~(Abs(n) % g = 0 /\ Abs(d) % g = 0)

\* C10: after Rational.add(a, b) or Rational.subtract(a, b), each operand
\* has the value it had before the call and is in simplified form (gcd of
\* |numerator| and |denominator| is 1), also when a and b are one object or
\* share a denominator.
C10_OperandsKeptAndSimplified ==
  lastCall.op \in {"add", "subtract"} =>
     \A o \in {lastCall.a, lastCall.b} :
       /\ heap[o].denom # 0
       /\ SameValue(lastCall.before[o], heap[o])
       /\ Coprime(heap[o].numer, heap[o].denom)

\* add has been called on two objects of different denominators, the first
\* not in simplified form before the call.
C10_Witness ==
  /\ lastCall.op = "add"
  /\ lastCall.a # lastCall.b
  /\ lastCall.before[lastCall.a].denom # lastCall.before[lastCall.b].denom
  /\ ~Coprime(lastCall.before[lastCall.a].numer, lastCall.before[lastCall.a].denom)
  /\ heap[lastCall.a] # lastCall.before[lastCall.a]

====
